---- MODULE Spec2Model ----
(***************************************************************************)
(* Model of genhat-desktop/src-tauri/src/main.rs: the supervisor of the    *)
(* llama-server backend process (AppState.llama, switch_model, stop_llama, *)
(* the setup hook and the RunEvent::Exit handler), its log file and the    *)
(* threads that drain the process's output, the generate_speech command,   *)
(* and the executable locators resolve_llama_exe and resolve_tts_exe.      *)
(***************************************************************************)
EXTENDS Naturals, Sequences, FiniteSets

\* ------------------------------------------------------------------ bounds
\* Number of llama-server processes spawned in one run.
MaxProcs == 3
\* Number of entries of the models directory.
MaxDirLen == 2
\* Number of ancestors of current_exe() walked by the locators.
MaxAncestors == 2
\* Number of candidate paths that exist in a filesystem snapshot.
MaxExisting == 2

VARIABLES
    platform,   \* the cfg! target of the build: "windows", "macos" or "linux"
    dir,        \* the models directory, in the order read_dir yields it
    app,        \* "starting", "running", "exited" or "crashed"
    llama,      \* AppState.llama: None or the pid of the Child it holds
    poisoned,   \* whether the Mutex around AppState.llama is poisoned
    trace,      \* process events in the order the code issues them
    lastOp,     \* the last handler that ran and how it ended
    snapshot,   \* the candidate paths that exist, for the locator under examination
    resolved,   \* the result of the last resolve_*_exe call under examination
    log,        \* the lines spawn_llama_process appended to genhat-llama-server.log
    drains,     \* the (pid, stream) pairs a drain thread is reading
    logFaults   \* whether, in this run, a write to the log and a drain thread's
                \* open of it can fail

vars == <<platform, dir, app, llama, poisoned, trace, lastOp, snapshot, resolved,
          log, drains, logFaults>>

\* Option<Child>::None, and Option<PathBuf>::None.
None == 0
NoModel == ""

\* ------------------------------------------------------------- file names
\* The files that may lie in the models directory.
DefaultModel == "LFM-1.2B-INT8.gguf"
CustomModel == "custom.gguf"
T3Model == "t3_cfg-q4_k_m.gguf"
S3genModel == "s3gen-bf16.gguf"
VeModel == "ve_fp32-f16.gguf"
NotesFile == "notes.txt"

FileNames == {DefaultModel, CustomModel, T3Model, S3genModel, VeModel, NotesFile}

\* A file name as its sequence of characters, so that extension() and
\* starts_with() are computed on the name and not assumed.
chars(name) ==
    CASE name = DefaultModel ->
           <<"L","F","M","-","1",".","2","B","-","I","N","T","8",".","g","g","u","f">>
      [] name = CustomModel -> <<"c","u","s","t","o","m",".","g","g","u","f">>
      [] name = T3Model ->
           <<"t","3","_","c","f","g","-","q","4","_","k","_","m",".","g","g","u","f">>
      [] name = S3genModel ->
           <<"s","3","g","e","n","-","b","f","1","6",".","g","g","u","f">>
      [] name = VeModel ->
           <<"v","e","_","f","p","3","2","-","f","1","6",".","g","g","u","f">>
      [] name = NotesFile -> <<"n","o","t","e","s",".","t","x","t">>
      [] OTHER -> <<>>

\* str::starts_with
starts_with(name, prefix) ==
    /\ Len(chars(name)) >= Len(prefix)
    /\ SubSeq(chars(name), 1, Len(prefix)) = prefix

\* Path::extension: the part after the last '.', None (here the empty
\* sequence) when there is no '.' or when the only '.' is the first character.
extension(name) ==
    LET c == chars(name)
        dots == {i \in 1..Len(c) : c[i] = "."}
        last == CHOOSE i \in dots : \A j \in dots : j <= i
    IN  IF dots = {} THEN <<>>
        ELSE IF last = 1 THEN <<>>
        ELSE SubSeq(c, last + 1, Len(c))

\* Faulty path_exists: every path is taken to exist.
Mut_path_exists(name) == TRUE

\* Path::exists for a file of the models directory.
path_exists(name) == \E i \in 1..Len(dir) : dir[i] = name

\* Faulty is_llm_model: the ve_ prefix is not excluded.
Mut_is_llm_model(name) ==
    /\ extension(name) = <<"g","g","u","f">>
    /\ ~starts_with(name, <<"t","3","_">>)
    /\ ~starts_with(name, <<"s","3","g","e","n">>)

\* The filter of the setup hook's find_map.
is_llm_model(name) ==
    /\ extension(name) = <<"g","g","u","f">>
    /\ ~starts_with(name, <<"t","3","_">>)
    /\ ~starts_with(name, <<"s","3","g","e","n">>)
    /\ ~starts_with(name, <<"v","e","_">>)

\* model_to_load of the setup hook: the default model when it exists, else
\* the first directory entry that passes the filter, else None.
model_to_load(d) ==
    LET ok == {i \in 1..Len(d) : is_llm_model(d[i])}
        first == CHOOSE i \in ok : \A j \in ok : i <= j
    IN  IF \E i \in 1..Len(d) : d[i] = DefaultModel THEN DefaultModel
        ELSE IF ok = {} THEN NoModel
        ELSE d[first]

\* The directories: sequences of distinct file names.
Dirs ==
    {d \in UNION {[1..n -> FileNames] : n \in 0..MaxDirLen} :
        \A i, j \in 1..Len(d) : d[i] = d[j] => i = j}

\* ------------------------------------------------------ executable locator
Platforms == {"windows", "macos", "linux"}

llama_os_folder(pf) ==
    IF pf = "windows" THEN "llama-win"
    ELSE IF pf = "macos" THEN "llama-mac"
    ELSE "llama-lin"

exe_names(pf) ==
    IF pf = "windows" THEN <<"llama-server.exe">>
    ELSE IF pf = "macos" THEN
        <<"llama-server", "llama-server-macos", "llama-server-macos-arm64",
          "llama-server-macos-x86_64", "llama-server-arm64", "llama-server-x86_64">>
    ELSE <<"llama-server">>

tts_os_folder(pf) ==
    IF pf = "windows" THEN "tts-win"
    ELSE IF pf = "macos" THEN "tts-mac"
    ELSE "tts-lin"

tts_exe_name(pf) == IF pf = "windows" THEN "tts-inference.exe" ELSE "tts-inference"

\* dir.join(base).join(folder).join(rel), dir being the anc-th ancestor of
\* current_exe() (1 is the closest).
Path(anc, base, folder, rel) ==
    [anc |-> anc, base |-> base, folder |-> folder, rel |-> rel]

NoPath == Path(0, "", "", <<>>)

Ancestors == 1..MaxAncestors

\* Faulty LlamaTryName: the release path is tested before the dev path.
Mut_LlamaTryName(anc, pf, name) ==
    LET dev == Path(anc, "src-tauri/bin", llama_os_folder(pf), <<name>>)
        rel == Path(anc, "bin", llama_os_folder(pf), <<name>>)
        res == Path(anc, "resources/bin", llama_os_folder(pf), <<name>>)
    IN  <<rel, dev, res>>

\* The body of the for loop of resolve_llama_exe for one ancestor and one
\* executable name: dev, then release, then resources.
LlamaTryName(anc, pf, name) ==
    LET dev == Path(anc, "src-tauri/bin", llama_os_folder(pf), <<name>>)
        rel == Path(anc, "bin", llama_os_folder(pf), <<name>>)
        res == Path(anc, "resources/bin", llama_os_folder(pf), <<name>>)
    IN  <<dev, rel, res>>

\* The paths one ancestor makes resolve_llama_exe test, in the order of the
\* loop over exe_names.
RECURSIVE LlamaAncestorPaths(_, _, _)
LlamaAncestorPaths(anc, pf, k) ==
    IF k > Len(exe_names(pf)) THEN <<>>
    ELSE LlamaTryName(anc, pf, exe_names(pf)[k]) \o LlamaAncestorPaths(anc, pf, k + 1)

\* The paths one ancestor makes resolve_tts_exe test: the --onedir layouts,
\* then the older --onefile dev path (accepted only when its parent is not
\* named tts-inference; its parent is the os folder).
TtsAncestorPaths(anc, pf) ==
    LET relative_path == <<"tts-inference", tts_exe_name(pf)>>
        dev == Path(anc, "src-tauri/bin", tts_os_folder(pf), relative_path)
        rel == Path(anc, "bin", tts_os_folder(pf), relative_path)
        res == Path(anc, "resources/bin", tts_os_folder(pf), relative_path)
        old_onefile == Path(anc, "src-tauri/bin", tts_os_folder(pf), <<tts_exe_name(pf)>>)
    IN  <<dev, rel, res>> \o
        (IF tts_os_folder(pf) # "tts-inference" THEN <<old_onefile>> ELSE <<>>)

\* One ancestor's tests against the snapshot: the first path that exists and
\* the paths tested up to it.
RECURSIVE ScanPaths(_, _, _, _)
ScanPaths(paths, k, snap, checked) ==
    IF k > Len(paths) THEN [found |-> NoPath, checked |-> checked]
    ELSE IF paths[k] \in snap
         THEN [found |-> paths[k], checked |-> Append(checked, paths[k])]
         ELSE ScanPaths(paths, k + 1, snap, Append(checked, paths[k]))

\* exe_path.ancestors().find_map(...) of resolve_llama_exe; found = NoPath is
\* the panic of the unwrap_or_else.
RECURSIVE LlamaFindMap(_, _, _, _)
LlamaFindMap(anc, pf, snap, checked) ==
    IF anc > MaxAncestors THEN [found |-> NoPath, checked |-> checked]
    ELSE LET r == ScanPaths(LlamaAncestorPaths(anc, pf, 1), 1, snap, checked)
         IN  IF r.found # NoPath THEN r
             ELSE LlamaFindMap(anc + 1, pf, snap, r.checked)

resolve_llama_exe(pf, snap) == LlamaFindMap(1, pf, snap, <<>>)

\* exe_path.ancestors().find_map(...) of resolve_tts_exe; found = NoPath is
\* the panic of the expect.
RECURSIVE TtsFindMap(_, _, _, _)
TtsFindMap(anc, pf, snap, checked) ==
    IF anc > MaxAncestors THEN [found |-> NoPath, checked |-> checked]
    ELSE LET r == ScanPaths(TtsAncestorPaths(anc, pf), 1, snap, checked)
         IN  IF r.found # NoPath THEN r
             ELSE TtsFindMap(anc + 1, pf, snap, r.checked)

\* resolve_tts_exe keeps no list of the paths it tested.
resolve_tts_exe(pf, snap) ==
    [found |-> TtsFindMap(1, pf, snap, <<>>).found, checked |-> <<>>]

Range(s) == {s[i] : i \in 1..Len(s)}

LlamaCandidates(pf) ==
    UNION {Range(LlamaAncestorPaths(a, pf, 1)) : a \in Ancestors}

TtsCandidates(pf) ==
    UNION {Range(TtsAncestorPaths(a, pf)) : a \in Ancestors}

\* ------------------------------------------------------------ the processes
SpawnEvent(pid, model) == [kind |-> "spawn", pid |-> pid, model |-> model]
KillEvent(pid) == [kind |-> "kill", pid |-> pid, model |-> NoModel]
StoreEvent(pid) == [kind |-> "store", pid |-> pid, model |-> NoModel]

SpawnedIn(t) == {t[i].pid : i \in {j \in 1..Len(t) : t[j].kind = "spawn"}}
KilledIn(t) == {t[i].pid : i \in {j \in 1..Len(t) : t[j].kind = "kill"}}

\* How a handler ended: payload holds the values its message or return value
\* carries, oneshot tells whether it ran the speech executable, input holds
\* the conditions a generate_speech call met.
Op(op, outcome, detail) ==
    [op |-> op, outcome |-> outcome, detail |-> detail,
     payload |-> <<>>, oneshot |-> FALSE, input |-> <<>>]

\* A line of the log file: "--- llama-server start ---", "exe: ..",
\* "model: .." and "spawned pid: ..".
LogLine(kind, pid, model, exe) ==
    [kind |-> kind, pid |-> pid, model |-> model, exe |-> exe]

\* The streams of a spawned process that are piped.
Streams == {"stdout", "stderr"}

\* The thread that reads one stream of one process.
Drain(pid, stream) == [pid |-> pid, stream |-> stream]

\* The conditions spawn_llama_process may meet, as <<snapshot, the log file
\* opens, Command::spawn succeeds, the writes to the log succeed, the streams
\* whose drain thread opens the log>>: no llama-server anywhere; the bundled
\* one (bin/{os_folder}/{first name}, next to the running executable) with the
\* log file not opening, with the spawn failing, and with both succeeding. The
\* last two components vary only in a run with logFaults.
LaunchEnvs(pf) ==
    LET writes == IF logFaults THEN BOOLEAN ELSE {TRUE}
        opens == IF logFaults THEN SUBSET Streams ELSE {Streams}
    IN  {<<{}, TRUE, TRUE, TRUE, Streams>>} \cup
        UNION {LET exe == {Path(a, "bin", llama_os_folder(pf), <<exe_names(pf)[1]>>)}
               IN  {<<exe, FALSE, TRUE, TRUE, Streams>>}
                   \cup {<<exe, TRUE, FALSE, w, Streams>> : w \in writes}
                   \cup {<<exe, TRUE, TRUE, w, d>> : w \in writes, d \in opens}
               : a \in {1}}

\* spawn_llama_process: resolve the executable, open the log, write the
\* header lines, spawn, write the pid line, start the two drain threads. Each
\* of the first three can panic; a failed write is ignored (let _ =); a drain
\* thread whose open of the log fails ends without reading its stream. On
\* success the new Child is returned.
spawn_llama_process(model_path, snap, logOK, spawnOK, writeOK, drainOpen) ==
    LET exe == resolve_llama_exe(platform, snap)
        pid == Cardinality(SpawnedIn(trace)) + 1
        header == IF writeOK
                  THEN <<LogLine("start", None, NoModel, NoPath),
                         LogLine("exe", None, NoModel, exe.found),
                         LogLine("model", None, model_path, NoPath)>>
                  ELSE <<>>
        pidLine == IF writeOK THEN <<LogLine("spawned", pid, NoModel, NoPath)>> ELSE <<>>
    IN  IF exe.found = NoPath
            THEN [ok |-> FALSE, panic |-> "ResolutionFailed", child |-> None,
                  events |-> <<>>, log |-> <<>>, drains |-> {}]
        ELSE IF ~logOK
            THEN [ok |-> FALSE, panic |-> "LogOpenFailed", child |-> None,
                  events |-> <<>>, log |-> <<>>, drains |-> {}]
        ELSE IF ~spawnOK
            THEN [ok |-> FALSE, panic |-> "LaunchFailed", child |-> None,
                  events |-> <<>>, log |-> header, drains |-> {}]
        ELSE [ok |-> TRUE, panic |-> "", child |-> pid,
              events |-> <<SpawnEvent(pid, model_path)>>,
              log |-> header \o pidLine,
              drains |-> {Drain(pid, st) : st \in drainOpen}]

\* Faulty take_and_kill: the handle is taken and dropped, not killed.
Mut_take_and_kill(slot) == <<>>

\* if let Some(mut child) = guard.take() { let _ = child.kill(); }
take_and_kill(slot) == IF slot = None THEN <<>> ELSE <<KillEvent(slot)>>

\* The drain threads that go on reading after the events: the streams of a
\* killed process close, and the threads reading them end.
still_draining(ds, events) == {d \in ds : d.pid \notin KilledIn(events)}

\* Faulty switch_events: the new process is spawned before the old is killed.
Mut_switch_events(killed, r) ==
    IF r.ok THEN r.events \o killed \o <<StoreEvent(r.child)>> ELSE killed

\* The events of switch_model's critical section, in the order of its
\* statements: kill existing, spawn new, store.
switch_events(killed, r) ==
    IF r.ok THEN killed \o r.events \o <<StoreEvent(r.child)>> ELSE killed

\* ------------------------------------------------------- the speech command
\* The file generate_speech makes the executable write: temp_dir joined with
\* genhat_tts_{timestamp}.wav.
OutputWav == "genhat_tts.wav"

\* What the speech executable may leave on its standard output and on its
\* standard error, as bytes; "xFF" is a byte that is not valid UTF-8.
StdoutCaptures == {<<>>, <<"w", "a", "v">>}
StderrCaptures == {<<"e", "r", "r">>, <<"e", "xFF">>}

\* String::from_utf8_lossy: an invalid byte becomes U+FFFD.
from_utf8_lossy(bytes) ==
    [i \in 1..Len(bytes) |-> IF bytes[i] = "xFF" THEN "uFFFD" ELSE bytes[i]]

\* The conditions generate_speech may meet, as <<the files that exist in the
\* directory of the model, the snapshot of the locator, Command::output
\* starts the process, its exit status, its stdout, its stderr>>: no
\* tts-inference anywhere; the bundled one with any of the three model files
\* missing, with the process not starting, and with the process running to
\* its end. A component the call does not get to read is held at one value.
SpeechEnvs(pf) ==
    LET exe == {Path(1, "bin", tts_os_folder(pf), <<"tts-inference", tts_exe_name(pf)>>)}
        all == {S3genModel, VeModel, T3Model}
    IN  {<<present, {}, TRUE, 0, <<>>, <<"e", "r", "r">>>> : present \in {all, all \ {VeModel}}}
        \cup {<<present, exe, TRUE, 0, <<>>, <<"e", "r", "r">>>> : present \in (SUBSET all) \ {all}}
        \cup {<<all, exe, FALSE, 0, <<>>, <<"e", "r", "r">>>>}
        \cup {<<all, exe, TRUE, 0, <<"w", "a", "v">>, <<"e", "r", "r">>>>}
        \cup {<<all, exe, TRUE, 1, out, err>> :
                 out \in StdoutCaptures, err \in StderrCaptures}

SpeechOp(outcome, detail, payload, oneshot) ==
    [op |-> "generate_speech", outcome |-> outcome, detail |-> detail,
     payload |-> payload, oneshot |-> oneshot, input |-> <<>>]

\* Faulty missing_artifact: the sibling ve_fp32-f16.gguf is not looked for.
Mut_missing_artifact(model_path, present) ==
    IF model_path \notin present THEN model_path
    ELSE IF T3Model \notin present THEN T3Model
    ELSE NoModel

\* The three exists() tests of generate_speech, in their order: the first
\* file that is missing, NoModel when none is.
missing_artifact(model_path, present) ==
    IF model_path \notin present THEN model_path
    ELSE IF VeModel \notin present THEN VeModel
    ELSE IF T3Model \notin present THEN T3Model
    ELSE NoModel

\* Faulty speech_result: the error of a failed process carries its stderr only.
Mut_speech_result(model_path, present, spawnOK, status, out, err) ==
    LET miss == missing_artifact(model_path, present)
    IN  IF miss # NoModel
            THEN SpeechOp("Err",
                          IF miss = model_path THEN "Model path not found"
                          ELSE IF miss = VeModel THEN "Sibling VAE model not found"
                          ELSE "Sibling CLIP model not found",
                          <<miss>>, FALSE)
        ELSE IF ~spawnOK
            THEN SpeechOp("Err", "Failed to spawn tts executable", <<>>, FALSE)
        ELSE IF status # 0
            THEN SpeechOp("Err", "TTS process failed", <<from_utf8_lossy(err)>>, TRUE)
        ELSE SpeechOp("Ok", "", <<OutputWav>>, TRUE)

\* generate_speech after the executable is resolved: the tests of the model
\* files, the run of the executable to its end, and the value returned.
speech_result(model_path, present, spawnOK, status, out, err) ==
    LET miss == missing_artifact(model_path, present)
    IN  IF miss # NoModel
            THEN SpeechOp("Err",
                          IF miss = model_path THEN "Model path not found"
                          ELSE IF miss = VeModel THEN "Sibling VAE model not found"
                          ELSE "Sibling CLIP model not found",
                          <<miss>>, FALSE)
        ELSE IF ~spawnOK
            THEN SpeechOp("Err", "Failed to spawn tts executable", <<>>, FALSE)
        ELSE IF status # 0
            THEN SpeechOp("Err", "TTS process failed",
                          <<from_utf8_lossy(err), from_utf8_lossy(out)>>, TRUE)
        ELSE SpeechOp("Ok", "", <<OutputWav>>, TRUE)

\* ------------------------------------------------------------------- Init
\* The handlers of the supervisor do not depend on the target; the locators
\* are examined for every target under SpecResolve.
Init ==
    /\ platform = "linux"
    /\ dir \in Dirs
    /\ app = "starting"
    /\ llama = None
    /\ poisoned = FALSE
    /\ trace = <<>>
    /\ lastOp = Op("none", "", "")
    /\ snapshot = {}
    /\ resolved = [backend |-> "none", found |-> NoPath, checked |-> <<>>]
    /\ log = <<>>
    /\ drains = {}
    /\ logFaults = FALSE

\* ---------------------------------------------------------------- actions
\* Each handler is one step. A panic (the panic! of resolve_llama_exe, an
\* expect, an unwrap of a poisoned lock) unwinds the handler: the MutexGuard
\* it holds is dropped in the unwinding, which poisons the mutex. A panic in
\* the setup hook or in the exit handler is a panic of the main thread and
\* ends the application; a panic in a command ends the application or only
\* the thread that ran the command, as the runtime has it: both are possible.
\* Faulty setup: the hook can run again when commands have already run, and
\* its replace then finds a handle in the slot.
Mut_setup ==
    /\ app \in {"starting", "running"}
    /\ UNCHANGED <<platform, dir, poisoned, snapshot, resolved, logFaults>>
    /\ LET p == model_to_load(dir)
       IN  IF p = NoModel
           THEN /\ app' = "running"
                /\ lastOp' = Op("setup", "Ok", "NoModelsFound")
                /\ UNCHANGED <<llama, trace, log, drains>>
           ELSE \E env \in LaunchEnvs(platform) :
                LET r == spawn_llama_process(p, env[1], env[2], env[3], env[4], env[5])
                IN  /\ log' = log \o r.log
                    /\ drains' = drains \cup r.drains
                    /\ IF r.ok
                       THEN /\ trace' = trace \o r.events \o <<StoreEvent(r.child)>>
                            /\ llama' = r.child
                            /\ app' = "running"
                            /\ lastOp' = Op("setup", "Ok", "Started")
                       ELSE /\ app' = "crashed"
                            /\ lastOp' = Op("setup", "panic", r.panic)
                            /\ UNCHANGED <<llama, trace>>

\* The setup hook of main: auto-start the default model if found. It runs
\* once, before any command is served.
setup ==
    /\ app = "starting"
    /\ UNCHANGED <<platform, dir, poisoned, snapshot, resolved, logFaults>>
    /\ LET p == model_to_load(dir)
       IN  IF p = NoModel
           THEN /\ app' = "running"
                /\ lastOp' = Op("setup", "Ok", "NoModelsFound")
                /\ UNCHANGED <<llama, trace, log, drains>>
           ELSE \E env \in LaunchEnvs(platform) :
                LET r == spawn_llama_process(p, env[1], env[2], env[3], env[4], env[5])
                IN  /\ log' = log \o r.log
                    /\ drains' = drains \cup r.drains
                    /\ IF r.ok
                       THEN /\ trace' = trace \o r.events \o <<StoreEvent(r.child)>>
                            /\ llama' = r.child
                            /\ app' = "running"
                            /\ lastOp' = Op("setup", "Ok", "Started")
                       ELSE /\ app' = "crashed"
                            /\ lastOp' = Op("setup", "panic", r.panic)
                            /\ UNCHANGED <<llama, trace>>

\* The switch_model command.
switch_model(model_path) ==
    /\ app = "running"
    /\ UNCHANGED <<platform, dir, snapshot, resolved, logFaults>>
    /\ IF ~path_exists(model_path)
       THEN /\ lastOp' = Op("switch_model", "Err", "ModelNotFound")
            /\ UNCHANGED <<app, llama, poisoned, trace, log, drains>>
       ELSE IF poisoned
       THEN /\ lastOp' = Op("switch_model", "panic", "PoisonError")
            /\ app' \in {"running", "crashed"}
            /\ UNCHANGED <<llama, poisoned, trace, log, drains>>
       ELSE \E env \in LaunchEnvs(platform) :
            LET killed == take_and_kill(llama)
                r == spawn_llama_process(model_path, env[1], env[2], env[3], env[4], env[5])
            IN  /\ log' = log \o r.log
                /\ drains' = still_draining(drains, switch_events(killed, r)) \cup r.drains
                /\ IF r.ok
                   THEN /\ Cardinality(SpawnedIn(trace)) < MaxProcs
                        /\ trace' = trace \o switch_events(killed, r)
                        /\ llama' = r.child
                        /\ lastOp' = Op("switch_model", "Ok", "server started")
                        /\ UNCHANGED <<app, poisoned>>
                   ELSE /\ trace' = trace \o switch_events(killed, r)
                        /\ llama' = None
                        /\ poisoned' = TRUE
                        /\ lastOp' = Op("switch_model", "panic", r.panic)
                        /\ app' \in {"running", "crashed"}

\* Faulty stop_llama: the handle is taken and dropped, not killed.
Mut_stop_llama ==
    /\ app = "running"
    /\ UNCHANGED <<platform, dir, snapshot, resolved, log, logFaults>>
    /\ IF poisoned
       THEN /\ lastOp' = Op("stop_llama", "panic", "PoisonError")
            /\ app' \in {"running", "crashed"}
            /\ UNCHANGED <<llama, poisoned, trace, drains>>
       ELSE /\ llama' = None
            /\ lastOp' = Op("stop_llama", "Ok", IF llama = None THEN "NoProcess" ELSE "Killed")
            /\ UNCHANGED <<app, poisoned, trace, drains>>

\* The stop_llama command.
stop_llama ==
    /\ app = "running"
    /\ UNCHANGED <<platform, dir, snapshot, resolved, log, logFaults>>
    /\ IF poisoned
       THEN /\ lastOp' = Op("stop_llama", "panic", "PoisonError")
            /\ app' \in {"running", "crashed"}
            /\ UNCHANGED <<llama, poisoned, trace, drains>>
       ELSE /\ trace' = trace \o take_and_kill(llama)
            /\ drains' = still_draining(drains, take_and_kill(llama))
            /\ llama' = None
            /\ lastOp' = Op("stop_llama", "Ok", IF llama = None THEN "NoProcess" ELSE "Killed")
            /\ UNCHANGED <<app, poisoned>>

\* Faulty exit handler: the process is killed but its handle stays in the slot.
Mut_RunEventExit ==
    /\ app = "running"
    /\ UNCHANGED <<platform, dir, snapshot, resolved, log, logFaults>>
    /\ IF poisoned
       THEN /\ lastOp' = Op("exit", "panic", "PoisonError")
            /\ app' = "crashed"
            /\ UNCHANGED <<llama, poisoned, trace, drains>>
       ELSE /\ trace' = trace \o take_and_kill(llama)
            /\ drains' = still_draining(drains, take_and_kill(llama))
            /\ lastOp' = Op("exit", "Ok", IF llama = None THEN "NoProcess" ELSE "Killed")
            /\ app' = "exited"
            /\ UNCHANGED <<llama, poisoned>>

\* The RunEvent::Exit arm of the run callback.
RunEventExit ==
    /\ app = "running"
    /\ UNCHANGED <<platform, dir, snapshot, resolved, log, logFaults>>
    /\ IF poisoned
       THEN /\ lastOp' = Op("exit", "panic", "PoisonError")
            /\ app' = "crashed"
            /\ UNCHANGED <<llama, poisoned, trace, drains>>
       ELSE /\ trace' = trace \o take_and_kill(llama)
            /\ drains' = still_draining(drains, take_and_kill(llama))
            /\ llama' = None
            /\ lastOp' = Op("exit", "Ok", IF llama = None THEN "NoProcess" ELSE "Killed")
            /\ app' = "exited"
            /\ UNCHANGED poisoned

\* Faulty generate_speech: the lock of AppState.llama is taken first.
Mut_generate_speech(model_path, env) ==
    /\ app = "running"
    /\ UNCHANGED <<platform, dir, llama, poisoned, trace, snapshot, resolved,
                    log, drains, logFaults>>
    /\ app' = app
    /\ lastOp' =
         [ ( IF poisoned
               THEN SpeechOp("panic", "PoisonError", <<>>, FALSE)
             ELSE IF resolve_tts_exe(platform, env[2]).found = NoPath
               THEN SpeechOp("panic", "TTS executable not found", <<>>, FALSE)
             ELSE speech_result(model_path, env[1], env[3], env[4], env[5], env[6]) )
           EXCEPT !.input = env ]

\* The generate_speech command. It is an async command: it runs as a task of
\* the async runtime, which keeps a panic of the task to the task.
generate_speech(model_path, env) ==
    /\ app = "running"
    /\ UNCHANGED <<platform, dir, llama, poisoned, trace, snapshot, resolved,
                    log, drains, logFaults>>
    /\ app' = app
    /\ lastOp' =
         [ ( IF resolve_tts_exe(platform, env[2]).found = NoPath
               THEN SpeechOp("panic", "TTS executable not found", <<>>, FALSE)
             ELSE speech_result(model_path, env[1], env[3], env[4], env[5], env[6]) )
           EXCEPT !.input = env ]

\* The supervisor: the handlers that use AppState.llama.
Next ==
    \/ setup
    \/ \E model_path \in FileNames : switch_model(model_path)
    \/ stop_llama
    \/ RunEventExit

Spec == Init /\ [][Next]_vars

\* ---------------- the supervisor and the speech command, with a failing log
\* Three directories: nothing to launch at start, the default model, and a
\* model that is not the default.
FullDirs == {<<NotesFile>>, <<DefaultModel>>, <<CustomModel, NotesFile>>}

InitFull ==
    /\ platform = "linux"
    /\ dir \in FullDirs
    /\ app = "starting"
    /\ llama = None
    /\ poisoned = FALSE
    /\ trace = <<>>
    /\ lastOp = Op("none", "", "")
    /\ snapshot = {}
    /\ resolved = [backend |-> "none", found |-> NoPath, checked |-> <<>>]
    /\ log = <<>>
    /\ drains = {}
    /\ logFaults = TRUE

NextFull ==
    \/ setup
    \/ \E model_path \in FileNames : switch_model(model_path)
    \/ stop_llama
    \/ RunEventExit
    \/ \E env \in SpeechEnvs(platform) : generate_speech(S3genModel, env)

SpecFull == InitFull /\ [][NextFull]_vars

\* ------------------------------------------- the locators, examined alone
\* The sets of at most k elements of S.
RECURSIVE SubsetsUpTo(_, _)
SubsetsUpTo(S, k) ==
    IF k = 0 THEN {{}}
    ELSE LET smaller == SubsetsUpTo(S, k - 1)
         IN  smaller \cup {T \cup {c} : T \in smaller, c \in S}

\* A file exists only inside a directory that exists: where the --onedir
\* folder and the --onefile executable have the same name (not on Windows),
\* src-tauri/bin/{os_folder}/tts-inference exists whenever the executable
\* inside it does.
FsConsistent(pf, snap) ==
    \A c \in snap :
        ( /\ c.base = "src-tauri/bin"
          /\ c.rel = <<"tts-inference", tts_exe_name(pf)>>
          /\ tts_exe_name(pf) = "tts-inference" )
        => Path(c.anc, c.base, c.folder, <<tts_exe_name(pf)>>) \in snap

InitResolve ==
    /\ platform \in Platforms
    /\ snapshot \in SubsetsUpTo(LlamaCandidates(platform) \cup TtsCandidates(platform),
                                MaxExisting)
    /\ FsConsistent(platform, snapshot)
    /\ dir = <<>>
    /\ app = "starting"
    /\ llama = None
    /\ poisoned = FALSE
    /\ trace = <<>>
    /\ lastOp = Op("none", "", "")
    /\ resolved = [backend |-> "none", found |-> NoPath, checked |-> <<>>]
    /\ log = <<>>
    /\ drains = {}
    /\ logFaults = FALSE

\* A call of resolve_llama_exe on the snapshot.
ResolveLlama ==
    /\ LET r == resolve_llama_exe(platform, snapshot)
       IN  resolved' = [backend |-> "llama", found |-> r.found, checked |-> r.checked]
    /\ UNCHANGED <<platform, dir, app, llama, poisoned, trace, lastOp, snapshot,
                    log, drains, logFaults>>

\* A call of resolve_tts_exe on the snapshot.
ResolveTts ==
    /\ LET r == resolve_tts_exe(platform, snapshot)
       IN  resolved' = [backend |-> "tts", found |-> r.found, checked |-> r.checked]
    /\ UNCHANGED <<platform, dir, app, llama, poisoned, trace, lastOp, snapshot,
                    log, drains, logFaults>>

NextResolve == ResolveLlama \/ ResolveTts

SpecResolve == InitResolve /\ [][NextResolve]_vars

\* ===================================================================
\* Properties
\* ===================================================================
\* The processes spawned and not yet sent a termination signal after the
\* first k events.
AliveAt(k) == SpawnedIn(SubSeq(trace, 1, k)) \ KilledIn(SubSeq(trace, 1, k))

\* The events a step appends to the trace.
Added == SubSeq(trace', Len(trace) + 1, Len(trace'))

Kills(t) == {i \in 1..Len(t) : t[i].kind = "kill"}
Spawns(t) == {i \in 1..Len(t) : t[i].kind = "spawn"}

\* C1: at every point of every run (after every event, also those in the
\* middle of a handler) at most one spawned process has not been sent a
\* termination signal.
C1_AtMostOneAlive == \A k \in 0..Len(trace) : Cardinality(AliveAt(k)) <= 1

\* A second process is running in the slot, the first having been replaced.
C1_Witness ==
    /\ Cardinality(SpawnedIn(trace)) >= 2
    /\ llama # None
    /\ AliveAt(Len(trace)) = {llama}

\* C2: a switch_model call with a valid model that directly follows a
\* successful switch_model call sends exactly one termination signal, to the
\* process of the first call, before anything else; it spawns at most one
\* process, and when it succeeds exactly one, after the signal, whose handle
\* it then stores in the slot.
C2_KillThenLaunch ==
    [][ ( /\ lastOp = Op("switch_model", "Ok", "server started")
          /\ lastOp'.op = "switch_model"
          /\ trace' # trace )
        => ( /\ llama # None
             /\ \E i \in Spawns(trace) :
                    /\ trace[i].pid = llama
                    /\ \A j \in Spawns(trace) : j <= i
             /\ Len(Added) >= 1
             /\ Added[1] = KillEvent(llama)
             /\ Kills(Added) = {1}
             /\ Cardinality(Spawns(Added)) <= 1
             /\ ( lastOp'.outcome = "Ok" =>
                    /\ Len(Added) = 3
                    /\ Added[2].kind = "spawn"
                    /\ Added[2].pid \notin SpawnedIn(trace)
                    /\ Added[2].model \in Range(dir)
                    /\ Added[3] = StoreEvent(Added[2].pid)
                    /\ llama' = Added[2].pid ) ) ]_vars

\* Two switch_model calls with different models, nothing launched at start
\* and nothing stopped in between.
C2_Witness ==
    /\ model_to_load(dir) = NoModel
    /\ Len(trace) = 5
    /\ trace[1].kind = "spawn" /\ trace[4].kind = "spawn"
    /\ trace[1].model # trace[4].model
    /\ trace[3] = KillEvent(trace[1].pid)
    /\ lastOp = Op("switch_model", "Ok", "server started")

\* C3: switch_model with a path that does not exist returns the
\* ModelNotFound error and changes nothing: the slot, the lock, the
\* processes and the application are as before.
C3_ModelNotFoundTouchesNothing ==
    [][ \A p \in FileNames :
          ( (\A i \in 1..Len(dir) : dir[i] # p) /\ switch_model(p) )
          => ( /\ lastOp' = Op("switch_model", "Err", "ModelNotFound")
               /\ UNCHANGED <<llama, poisoned, trace, app>> ) ]_vars

\* The call failed with ModelNotFound while a process was running.
C3_Witness ==
    /\ lastOp = Op("switch_model", "Err", "ModelNotFound")
    /\ llama # None
    /\ AliveAt(Len(trace)) = {llama}

\* C4 (as claimed): when resolving or spawning the backend fails in
\* switch_model, the call returns an error and the slot is empty.
C4_LaunchFailureReturnsErr ==
    ( lastOp.op = "switch_model"
      /\ lastOp.detail \in {"ResolutionFailed", "LaunchFailed"} )
    => ( lastOp.outcome = "Err" /\ llama = None )

\* C5: the exit handler leaves the slot empty and sends exactly one
\* termination signal, to the owned process, when there is one, and none
\* when there is none; it launches nothing.
C5_ShutdownIdleOneSignal ==
    [][ ( app = "running" /\ lastOp'.op = "exit" )
        => ( /\ llama' = None
             /\ Added = (IF llama # None THEN <<KillEvent(llama)>> ELSE <<>>) ) ]_vars

\* The application exited while a process was running.
C5_Witness ==
    /\ lastOp = Op("exit", "Ok", "Killed")
    /\ app = "exited"
    /\ trace # <<>>
    /\ trace[Len(trace)].kind = "kill"

C7_StopIdleIsNoOp ==
    [][ ( app = "running" /\ llama = None /\ lastOp'.op = "stop_llama" )
        => ( /\ lastOp'.outcome = "Ok"
             /\ llama' = None
             /\ trace' = trace
             /\ app' = app ) ]_vars

\* C8 (as claimed): a resolution or spawn failure of the auto-launch leaves
\* the slot empty and the application running.
C8_AutoLaunchFailureKeepsRunning ==
    ( lastOp.op = "setup"
      /\ lastOp.detail \in {"ResolutionFailed", "LaunchFailed"} )
    => ( app = "running" /\ llama = None )

\* A name that ends in ".gguf" and starts with none of the prefixes of the
\* speech models, as the claim words it.
LlmModelName(name) ==
    LET c == chars(name)
    IN  /\ Len(c) > 5
        /\ SubSeq(c, Len(c) - 4, Len(c)) = <<".","g","g","u","f">>
        /\ SubSeq(c, 1, 3) \notin {<<"t","3","_">>, <<"v","e","_">>}
        /\ SubSeq(c, 1, 5) # <<"s","3","g","e","n">>

\* The auto-launch launched model m, or tried to and died in the attempt.
AutoLaunched(m) ==
    \/ /\ trace = <<SpawnEvent(1, m), StoreEvent(1)>>
       /\ llama = 1
       /\ app = "running"
       /\ lastOp = Op("setup", "Ok", "Started")
    \/ /\ trace = <<>>
       /\ lastOp.outcome = "panic"

\* C9: right after the setup hook: with LFM-1.2B-INT8.gguf in the directory
\* that file is the one launched; without it, a .gguf file that is not a
\* speech model is the one launched if there is one; with no such file
\* nothing is launched, the slot is empty and the "no models found" line is
\* the only effect.
C9_AutoStartSelection ==
    lastOp.op = "setup" =>
        LET eligible == {m \in Range(dir) : LlmModelName(m)}
        IN  /\ DefaultModel \in Range(dir) => AutoLaunched(DefaultModel)
            /\ (DefaultModel \notin Range(dir) /\ eligible # {})
                 => \E m \in eligible : AutoLaunched(m)
            /\ (DefaultModel \notin Range(dir) /\ eligible = {})
                 => /\ trace = <<>>
                    /\ llama = None
                    /\ app = "running"
                    /\ lastOp = Op("setup", "Ok", "NoModelsFound")

\* custom.gguf was launched from a directory that also holds a speech model.
C9_Witness ==
    /\ lastOp = Op("setup", "Ok", "Started")
    /\ trace = <<SpawnEvent(1, CustomModel), StoreEvent(1)>>
    /\ \E m \in Range(dir) : ~LlmModelName(m)

\* The place of a path in the order of the tests.
LayoutIdx(base) ==
    IF base = "src-tauri/bin" THEN 1 ELSE IF base = "bin" THEN 2 ELSE 3

LlamaNameIdx(pf, path) ==
    CHOOSE k \in 1..Len(exe_names(pf)) : <<exe_names(pf)[k]>> = path.rel

\* For the speech backend: the --onedir file name is the first, the older
\* --onefile name the second.
TtsNameIdx(path) == IF Len(path.rel) = 2 THEN 1 ELSE 2

\* The order the code tests in: ancestor, then file name, then layout.
CodeBefore(c, f, nameIdx(_)) ==
    \/ c.anc < f.anc
    \/ /\ c.anc = f.anc
       /\ \/ nameIdx(c) < nameIdx(f)
          \/ /\ nameIdx(c) = nameIdx(f)
             /\ LayoutIdx(c.base) < LayoutIdx(f.base)

\* The order the claim states: ancestor, then layout, then file name.
ClaimedBefore(c, f, nameIdx(_)) ==
    \/ c.anc < f.anc
    \/ /\ c.anc = f.anc
       /\ \/ LayoutIdx(c.base) < LayoutIdx(f.base)
          \/ /\ LayoutIdx(c.base) = LayoutIdx(f.base)
             /\ nameIdx(c) < nameIdx(f)

\* The candidates of the resolved backend that exist in the snapshot.
Existing ==
    snapshot \cap (IF resolved.backend = "llama" THEN LlamaCandidates(platform)
                   ELSE TtsCandidates(platform))

\* C10 (as claimed): resolution returns the existing candidate that comes
\* first by ancestor, then layout (development, release, resources), then
\* file name.
C10_FirstInClaimedOrder ==
    resolved.backend # "none" =>
        LET idx(path) == IF resolved.backend = "llama" THEN LlamaNameIdx(platform, path)
                         ELSE TtsNameIdx(path)
        IN  IF Existing = {} THEN resolved.found = NoPath
            ELSE /\ resolved.found \in Existing
                 /\ \A c \in Existing : ~ClaimedBefore(c, resolved.found, idx)

\* C10 (amended): resolution returns the existing candidate that comes first
\* by ancestor, then file name, then layout (development, release,
\* resources); so a lone release candidate is returned, and a release
\* candidate is never returned when the development candidate of the same
\* ancestor and file name exists.
C10_FirstInCodeOrder ==
    resolved.backend # "none" =>
        LET idx(path) == IF resolved.backend = "llama" THEN LlamaNameIdx(platform, path)
                         ELSE TtsNameIdx(path)
        IN  IF Existing = {} THEN resolved.found = NoPath
            ELSE /\ resolved.found \in Existing
                 /\ \A c \in Existing : ~CodeBefore(c, resolved.found, idx)
                 /\ \A c \in Existing :
                      ( /\ c.anc = resolved.found.anc
                        /\ c.rel = resolved.found.rel
                        /\ c.base = "src-tauri/bin" )
                      => resolved.found.base = "src-tauri/bin"

\* A development and a release candidate of one ancestor and file name both
\* exist, and the development one is returned.
C10_Witness ==
    /\ resolved.backend = "llama"
    /\ resolved.found.base = "src-tauri/bin"
    /\ \E c \in snapshot :
         /\ c.base = "bin"
         /\ c.anc = resolved.found.anc
         /\ c.rel = resolved.found.rel

\* The candidates the locator of the resolved backend tests.
Candidates ==
    IF resolved.backend = "llama" THEN LlamaCandidates(platform)
    ELSE TtsCandidates(platform)

\* C11 (as claimed): when no candidate of the backend exists, resolution
\* fails, for llama-server and for tts-inference alike, and the failure lists
\* every path that was tested: each candidate of the backend, once.
C11_FailureListsEveryPath ==
    (resolved.backend # "none" /\ Existing = {})
    => ( /\ resolved.found = NoPath
         /\ Range(resolved.checked) = Candidates
         /\ Len(resolved.checked) = Cardinality(Candidates) )

\* The model file and its two siblings.
SpeechFiles == {S3genModel, VeModel, T3Model}

SpeechProcessRan ==
    /\ lastOp.op = "generate_speech"
    /\ lastOp.input[2] \cap TtsCandidates(platform) # {}
    /\ lastOp.input[1] = SpeechFiles
    /\ lastOp.input[3]

\* C13: when the speech process ran and ended with a status other than
\* success, generate_speech returns an error that carries the text of its
\* standard error and the text of its standard output, and not the path of
\* the output file; the path is returned only by a call whose process ended
\* with success.
C13_FailureCarriesOutput ==
    lastOp.op = "generate_speech"
    => ( /\ (SpeechProcessRan /\ lastOp.input[4] # 0)
            => ( /\ lastOp.outcome = "Err"
                 /\ lastOp.detail = "TTS process failed"
                 /\ \E i \in DOMAIN lastOp.payload :
                        lastOp.payload[i] = from_utf8_lossy(lastOp.input[5])
                 /\ \E i \in DOMAIN lastOp.payload :
                        lastOp.payload[i] = from_utf8_lossy(lastOp.input[6]) )
         /\ lastOp.outcome = "Ok"
            => ( /\ lastOp.payload = <<OutputWav>>
                 /\ lastOp.oneshot
                 /\ SpeechProcessRan
                 /\ lastOp.input[4] = 0 )
         /\ lastOp.outcome # "Ok" => lastOp.payload # <<OutputWav>> )

\* The process failed having written to both streams, with a byte that is
\* not UTF-8 on its standard error.
C13_Witness ==
    /\ lastOp.op = "generate_speech"
    /\ lastOp.detail = "TTS process failed"
    /\ lastOp.payload = <<<<"e", "uFFFD">>, <<"w", "a", "v">>>>

\* The processes that were waited for. The code calls Child::wait nowhere, so
\* no handler issues such an event.
WaitedIn(t) == {t[i].pid : i \in {j \in 1..Len(t) : t[j].kind = "wait"}}

\* C14 (as claimed): every process the supervisor gave up (it sent it a
\* termination signal) has also been waited for, and the wait comes before
\* the handle of a next process is stored.
C14_GivenUpIsReaped ==
    /\ KilledIn(trace) \subseteq WaitedIn(trace)
    /\ \A i \in Kills(trace) :
          \E j \in (i + 1)..Len(trace) :
              /\ trace[j].kind = "wait"
              /\ trace[j].pid = trace[i].pid
              /\ \A k \in (i + 1)..j : trace[k].kind # "store"

\* C15 (as claimed): each stream of every process that was launched and has
\* not been sent a termination signal is being read by a drain thread, also
\* in a run in which the log can fail to open or to take a write.
C15_BothStreamsDrained ==
    \A p \in AliveAt(Len(trace)) : \A st \in Streams : Drain(p, st) \in drains

\* C16 (as claimed): no launch, by switch_model or by the setup hook, ends
\* differently because the log file could not be opened: no handler ends in
\* the failure to open it.
C16_LogFailureDoesNotStopLaunch ==
    lastOp.op \in {"setup", "switch_model"} => lastOp.detail # "LogOpenFailed"

\* The lines of the log of one kind.
LogLines(kind) == {i \in 1..Len(log) : log[i].kind = kind}

\* C17 (as claimed): the log holds one termination line for each
\* termination signal sent and one launch line for each process spawned.
C17_LogCountsEvents ==
    /\ Cardinality(LogLines("terminated")) = Cardinality(Kills(trace))
    /\ Cardinality(LogLines("spawned")) = Cardinality(Spawns(trace))

C19_LockStaysUsable ==
    lastOp.op \in {"switch_model", "stop_llama", "exit"}
    => ~(lastOp.outcome = "panic" /\ lastOp.detail = "PoisonError")

\* C20: a step that takes a handle out of the slot, or puts another in its
\* place, sends the termination signal to the process of that handle, and
\* does so before it stores a new handle; the setup hook, whose replace kills
\* nothing, finds the slot empty.
C20_NoHandleLeavesUnkilled ==
    [][ /\ (llama # None /\ llama' # llama)
           => \E i \in 1..Len(Added) :
                  /\ Added[i] = KillEvent(llama)
                  /\ \A j \in 1..i : Added[j].kind # "store"
        /\ (lastOp'.op = "setup" /\ lastOp # lastOp') => llama = None ]_vars

\* A second process took the place of the first in the slot, and was then
\* stopped.
C20_Witness ==
    /\ lastOp = Op("stop_llama", "Ok", "Killed")
    /\ llama = None
    /\ Cardinality(SpawnedIn(trace)) = 2
    /\ KilledIn(trace) = SpawnedIn(trace)

====
